---- MODULE Spec2Model ----
(***************************************************************************)
(* The SQL group store of store/sqlstore/group_supplier.go: the relations  *)
(* Groups, GroupMembers, GroupTeams and GroupChannels, the repository      *)
(* operations on them, and the two pending-auto-add statements.            *)
(*                                                                         *)
(* A relation is a set of rows (records); the primary keys and the unique  *)
(* column declared in initSqlSupplierGroups are enforced by the insert and *)
(* update operators, not by the representation.  Every repository call is  *)
(* one action; what it returned is kept in res: the operation, Err, Data   *)
(* and the statements sent on its transaction.                             *)
(***************************************************************************)
EXTENDS Integers, Sequences, FiniteSets, TLC

VARIABLES
    Groups,                 \* rows of table Groups
    GroupMembers,           \* rows of table GroupMembers
    GroupTeams,             \* rows of table GroupTeams    (key column TeamId)
    GroupChannels,          \* rows of table GroupChannels (key column ChannelId)
    TeamMembers,            \* rows of table TeamMembers   (written by other stores)
    ChannelMemberHistory,   \* rows of table ChannelMemberHistory (other stores)
    now,                    \* the latest reading of model.GetMillis() stored
    res,                    \* the last call: [op, Err, Data, Tx]
    inflight                \* per concurrent caller: the call it is in, what
                            \* that call has read so far, what it returned

store == <<Groups, GroupMembers, GroupTeams, GroupChannels>>
extern == <<TeamMembers, ChannelMemberHistory>>
vars == <<Groups, GroupMembers, GroupTeams, GroupChannels,
          TeamMembers, ChannelMemberHistory, now, res, inflight>>

----------------------------------------------------------------------------
(* Bounds of the model *)

\* the clock runs from 1 to MaxTime
MaxTime == 2

\* a timestamp a caller may put in the entity it passes
Stamp == MaxTime + 1

\* identifiers model.NewId() can hand out, and the other ids callers pass
GroupIdPool == {"g1", "g2"}
UserIds == {"u1", "u2"}
TeamIds == {"t1"}
ChannelIds == {"c1"}
BadId == "bad"              \* an id model.IsValidId rejects
Names == {"eng", "ops"}
BadName == ""               \* a name Group validation rejects
DisplayNames == {"d1", "d2"}

\* tables of other stores that this store only joins against
Teams == { [Id |-> "t1"], [Id |-> "t2"] }
Channels == { [Id |-> "c1", SyncableId |-> "t1"] }


----------------------------------------------------------------------------
(* Results *)

NoErr == "nil"
NoData == [kind |-> "nil"]
NoTx == << >>
NULL == "NULL"

Result(op, err, data, tx) ==
    [op |-> op, Err |-> err, Data |-> data, Tx |-> tx]

\* the callers that can be inside a repository call at the same time, and
\* what is kept of a caller's call: the operation, where it stands (idle,
\* selected: its SELECT has returned, returned), its argument, the rows its
\* SELECT returned and its result
Callers == {"A", "B"}
Idle == [op |-> "idle", pc |-> "idle", arg |-> NULL, sel |-> {},
         res |-> Result("idle", NoErr, NoData, NoTx)]
NoCalls == [c \in Callers |-> Idle]

GroupData(g) == [kind |-> "Group", v |-> g]
GroupsData(groups) == [kind |-> "[]Group", v |-> groups]
SyncablesData(groupSyncables) == [kind |-> "[]GroupSyncable", v |-> groupSyncables]
MemberData(m) == [kind |-> "GroupMember", v |-> m]
SyncableData(gs) == [kind |-> "GroupSyncable", v |-> gs]

----------------------------------------------------------------------------
(* Validation in package model *)

IsValidId(id) == id # BadId /\ id # ""

GroupIsValidForCreate(group) == group.Name # BadName

GroupIsValidForUpdate(group) == IsValidId(group.Id) /\ group.Name # BadName

GroupMemberIsValid(member) == IsValidId(member.GroupId) /\ IsValidId(member.UserId)

GroupSyncableIsValid(gs) == IsValidId(gs.GroupId) /\ IsValidId(gs.SyncableId)

----------------------------------------------------------------------------
Init ==
    /\ Groups = {}
    /\ GroupMembers = {}
    /\ GroupTeams = {}
    /\ GroupChannels = {}
    /\ TeamMembers = {}
    /\ ChannelMemberHistory = {}
    /\ now = 1
    /\ res = Result("Init", NoErr, NoData, NoTx)
    /\ inflight = NoCalls

\* model.GetMillis(): the clock never runs backwards; a reading is the
\* latest stored one or a later one
GetMillis == {now} \cup (IF now < MaxTime THEN {now + 1} ELSE {})

\* a repository call that read the clock as time and returned r.res
Call(r, time) ==
    /\ res' = r.res
    /\ now' = IF r.res.Err = NoErr THEN time ELSE now
    /\ UNCHANGED inflight

\* the rows-affected figure of an UPDATE: the rows matched, or, where the
\* driver counts only rows whose values changed, the rows changed
RowsAffected(before, upd, foundRows) ==
    IF foundRows THEN upd.count ELSE Cardinality(upd.rows \ before)

\* a variant of AlreadyDeleted: the DeleteAt of the row read is not looked at
AlreadyDeleted_Unchecked(row) == FALSE

\* "if <row>.DeleteAt != 0": the row read is soft-deleted already
AlreadyDeleted(row) == row.DeleteAt # 0

\* a variant of ResetNotUpdatable: the caller's values stay in the entity
ResetNotUpdatable_Kept(entity, retrieved) == entity

\* "Reset these properties, don't update them based on input": the entity
\* passed gets the DeleteAt and CreateAt of the row read
ResetNotUpdatable(entity, retrieved) ==
    [entity EXCEPT !.DeleteAt = retrieved.DeleteAt, !.CreateAt = retrieved.CreateAt]

\* ORDER BY CreateAt DESC: the rows in any order in which CreateAt never
\* grows (rows with equal CreateAt come in an order of the database's choosing)
OrderByCreateAtDesc(rows) ==
    { s \in [1..Cardinality(rows) -> rows] :
        /\ \A i, j \in 1..Cardinality(rows) : i # j => s[i] # s[j]
        /\ \A i \in 1..(Cardinality(rows) - 1) : s[i].CreateAt >= s[i + 1].CreateAt }

\* LIMIT :Limit OFFSET :Offset
LimitOffset(s, limit, offset) ==
    SubSeq(s, offset + 1, IF offset + limit < Len(s) THEN offset + limit ELSE Len(s))

\* the (offset, limit) pairs callers pass
PageInputs == {0, 1} \X {1, 2}

----------------------------------------------------------------------------
(* GroupRepository *)

\* INSERT into Groups: primary key Id, unique column Name
GroupsInsert(T, g) ==
    IF \E r \in T : r.Id = g.Id THEN [err |-> "groups_pkey", rows |-> T]
    ELSE IF \E r \in T : r.Name = g.Name THEN [err |-> "groups_name_key", rows |-> T]
    ELSE [err |-> NoErr, rows |-> T \cup {g}]

\* a variant of GroupsUpdate: Name is not a unique column
GroupsUpdate_NoUnique(T, g, foundRows) ==
    LET matched == { r \in T : r.Id = g.Id } IN
    [err |-> NoErr,
     rows |-> IF matched = {} THEN T ELSE (T \ matched) \cup {g},
     count |-> IF foundRows THEN Cardinality(matched)
               ELSE Cardinality(matched \ {g})]

\* gorp Update on Groups: every column of the row with g's Id is written.
\* count is the driver's rows-changed figure: the rows matched, or, where the
\* driver counts only rows whose values changed, the rows changed.
GroupsUpdate(T, g, foundRows) ==
    LET matched == { r \in T : r.Id = g.Id } IN
    IF matched # {} /\ \E r \in T : r.Id # g.Id /\ r.Name = g.Name
    THEN [err |-> "groups_name_key", rows |-> T, count |-> 0]
    ELSE [err |-> NoErr,
          rows |-> IF matched = {} THEN T ELSE (T \ matched) \cup {g},
          count |-> IF foundRows THEN Cardinality(matched)
                    ELSE Cardinality(matched \ {g})]

\* SELECT * from Groups WHERE Id = :Id
GroupsSelectOne(T, id) == { r \in T : r.Id = id }

IsUniqueConstraintError(err, indexNames) == err \in indexNames

\* Commit of a transaction that was already rolled back or committed fails
\* with sql.ErrTxDone
TxDone(tx) == \E i \in 1..Len(tx) : tx[i] \in {"Rollback", "Commit"}

TxCommit(tx) == IF TxDone(tx) THEN "sql.ErrTxDone" ELSE NoErr

GroupCreateOp(group, id, time) ==
    LET ret(err, data, tx, rows) ==
            [Groups |-> rows, res |-> Result("GroupCreate", err, data, tx)]
    IN
    IF group.Id # "" THEN
        ret("store.sql_group.create.invalid_group_id", NoData, NoTx, Groups)
    ELSE IF ~GroupIsValidForCreate(group) THEN
        ret("model.group.invalid", NoData, NoTx, Groups)
    ELSE
        LET tx0 == <<"Begin">> IN
        IF ~GroupIsValidForCreate(group) THEN
            ret("model.group.invalid", NoData, tx0, Groups)
        ELSE
            LET g == [group EXCEPT !.Id = id, !.CreateAt = time, !.UpdateAt = time]
                ins == GroupsInsert(Groups, g)
                tx1 == IF ins.err # NoErr THEN tx0 \o <<"Insert", "Rollback">>
                       ELSE tx0 \o <<"Insert">>
                err1 == IF ins.err = NoErr THEN NoErr
                        ELSE IF IsUniqueConstraintError(ins.err, {"Name", "groups_name_key"})
                             THEN "store.sql_group.create.unique_constraint"
                             ELSE "store.sql_group.create.insert_error"
                data1 == IF ins.err = NoErr THEN GroupData(g) ELSE NoData
                cerr == TxCommit(tx1)
                tx2 == Append(tx1, "Commit")
            IN
            IF cerr # NoErr
            THEN ret("store.sql_group.create.commit_error", NoData, tx2, Groups)
            ELSE ret(err1, data1, tx2, IF ins.err = NoErr THEN ins.rows ELSE Groups)

GroupGetOp(groupId) ==
    LET sel == GroupsSelectOne(Groups, groupId) IN
    IF sel = {} THEN
        Result("GroupGet", "store.sql_group.get.no_rows", NoData, NoTx)
    ELSE
        Result("GroupGet", NoErr, GroupData(CHOOSE r \in sel : TRUE), NoTx)

\* a variant of GroupGetAllPageSelect: soft-deleted groups are selected too
GroupGetAllPageSelect_All == Groups

\* SELECT * from Groups WHERE DeleteAt = 0
GroupGetAllPageSelect == { g \in Groups : g.DeleteAt = 0 }

\* sorted is the order the database returned the selected rows in
GroupGetAllPageOp(offset, limit, sorted) ==
    Result("GroupGetAllPage", NoErr,
           GroupsData(LimitOffset(sorted, limit, offset)), NoTx)

\* GroupUpdate from the return of its SELECT (132) on: sel is what the SELECT
\* returned, Groups is the table at the time of the UPDATE (151)
GroupUpdateAfterSelect(group, sel, foundRows, time) ==
    LET ret(err, data, rows) ==
            [Groups |-> rows, res |-> Result("GroupUpdate", err, data, NoTx)]
    IN
    IF sel = {} THEN
        ret("store.sql_group.update.no_rows", NoData, Groups)
    ELSE
        LET retrievedGroup == CHOOSE r \in sel : TRUE
            g == [ResetNotUpdatable(group, retrievedGroup) EXCEPT !.UpdateAt = time]
        IN
        IF ~GroupIsValidForUpdate(g) THEN
            ret("model.group.invalid", NoData, Groups)
        ELSE
            LET upd == GroupsUpdate(Groups, g, foundRows) IN
            IF upd.err # NoErr THEN
                ret("store.sql_group.update.update_error", NoData, Groups)
            ELSE IF upd.count # 1 THEN
                ret("store.sql_group.update.no_rows_changed", NoData, upd.rows)
            ELSE
                ret(NoErr, GroupData(g), upd.rows)

GroupUpdateOp(group, foundRows, time) ==
    GroupUpdateAfterSelect(group, GroupsSelectOne(Groups, group.Id), foundRows, time)

\* GroupDelete from the return of its SELECT (173) on
GroupDeleteAfterSelect(groupID, sel, foundRows, time) ==
    LET ret(err, data, rows) ==
            [Groups |-> rows, res |-> Result("GroupDelete", err, data, NoTx)]
        err0 == IF ~IsValidId(groupID)
                THEN "store.sql_group.delete.invalid_group_id" ELSE NoErr
    IN
    IF sel = {} THEN
        ret("store.sql_group.delete.no_rows", NoData, Groups)
    ELSE
        LET group == CHOOSE r \in sel : TRUE IN
        IF AlreadyDeleted(group) THEN
            ret("store.sql_group.delete.already_deleted", NoData, Groups)
        ELSE
            LET g == [group EXCEPT !.DeleteAt = time, !.UpdateAt = time]
                upd == GroupsUpdate(Groups, g, foundRows)
            IN
            IF upd.err # NoErr THEN
                ret("store.sql_group.delete.update_error", NoData, Groups)
            ELSE IF upd.count # 1 THEN
                ret("store.sql_group.delete.no_rows_affected", NoData, upd.rows)
            ELSE
                ret(err0, GroupData(g), upd.rows)

\* a call alone: the row it read live gets new stamps, so the rows matched
\* are the rows changed
GroupDeleteOp(groupID, time) ==
    GroupDeleteAfterSelect(groupID, GroupsSelectOne(Groups, groupID), TRUE, time)

\* what callers pass as a Group: well-formed ones, one with an Id already set
\* or with a malformed Id, one with a Name validation rejects
GroupInputs(ids, stamps) ==
    { [Id |-> i, Name |-> n, DisplayName |-> d,
       CreateAt |-> st, UpdateAt |-> st, DeleteAt |-> st] :
        i \in ids, n \in Names, d \in DisplayNames, st \in stamps }

GroupCreateInputs ==
    GroupInputs({""}, {0})
    \cup { [Id |-> "g1", Name |-> "eng", DisplayName |-> "d1",
             CreateAt |-> 0, UpdateAt |-> 0, DeleteAt |-> 0],
           [Id |-> "", Name |-> BadName, DisplayName |-> "d1",
             CreateAt |-> 0, UpdateAt |-> 0, DeleteAt |-> 0],
           [Id |-> "", Name |-> "eng", DisplayName |-> "d1",
             CreateAt |-> 0, UpdateAt |-> 0, DeleteAt |-> Stamp] }

GroupUpdateInputs ==
    GroupInputs(GroupIdPool, {0, Stamp})
    \cup { [Id |-> BadId, Name |-> "eng", DisplayName |-> "d1",
             CreateAt |-> 0, UpdateAt |-> 0, DeleteAt |-> 0],
           [Id |-> "g1", Name |-> BadName, DisplayName |-> "d1",
             CreateAt |-> 0, UpdateAt |-> 0, DeleteAt |-> 0] }

\* model.NewId(): an identifier no stored group has
NewIds == GroupIdPool \ { r.Id : r \in Groups }

GroupCreate ==
    \E group \in GroupCreateInputs, id \in NewIds, time \in GetMillis :
        LET r == GroupCreateOp(group, id, time) IN
        /\ Call(r, time)
        /\ Groups' = r.Groups
        /\ UNCHANGED <<GroupMembers, GroupTeams, GroupChannels, extern>>

GroupGet ==
    \E groupId \in GroupIdPool \cup {BadId} :
        /\ Call([res |-> GroupGetOp(groupId)], now)
        /\ UNCHANGED <<store, extern>>

GroupGetAllPage ==
    \E page \in PageInputs, sorted \in OrderByCreateAtDesc(GroupGetAllPageSelect) :
        /\ Call([res |-> GroupGetAllPageOp(page[1], page[2], sorted)], now)
        /\ UNCHANGED <<store, extern>>

GroupUpdate ==
    \E group \in GroupUpdateInputs, foundRows \in BOOLEAN, time \in GetMillis :
        LET r == GroupUpdateOp(group, foundRows, time) IN
        /\ Call(r, time)
        /\ Groups' = r.Groups
        /\ UNCHANGED <<GroupMembers, GroupTeams, GroupChannels, extern>>

GroupDelete ==
    \E groupID \in GroupIdPool \cup {BadId}, time \in GetMillis :
        LET r == GroupDeleteOp(groupID, time) IN
        /\ Call(r, time)
        /\ Groups' = r.Groups
        /\ UNCHANGED <<GroupMembers, GroupTeams, GroupChannels, extern>>

----------------------------------------------------------------------------
(* GroupMembershipRepository *)

\* a variant of GroupMembersInsert: the relation has no primary key
GroupMembersInsert_NoKey(T, m) == [err |-> NoErr, rows |-> T \cup {m}]

\* INSERT into GroupMembers: primary key (GroupId, UserId)
GroupMembersInsert(T, m) ==
    IF \E r \in T : r.GroupId = m.GroupId /\ r.UserId = m.UserId
    THEN [err |-> "groupmembers_pkey", rows |-> T]
    ELSE [err |-> NoErr, rows |-> T \cup {m}]

\* a variant of GroupMembersSelectOne: the row is looked up by group alone
GroupMembersSelectOne_ByGroup(T, groupID, userID) ==
    { r \in T : r.GroupId = groupID }

\* SELECT * FROM GroupMembers WHERE GroupId = :GroupId AND UserId = :UserId
GroupMembersSelectOne(T, groupID, userID) ==
    { r \in T : r.GroupId = groupID /\ r.UserId = userID }

\* gorp Update on GroupMembers: the row with m's key gets m's columns
GroupMembersUpdate(T, m) ==
    LET matched == GroupMembersSelectOne(T, m.GroupId, m.UserId) IN
    [err |-> NoErr,
     rows |-> IF matched = {} THEN T ELSE (T \ matched) \cup {m},
     count |-> Cardinality(matched)]

GroupCreateMemberOp(groupID, userID, time) ==
    LET ret(err, data, rows) ==
            [GroupMembers |-> rows,
             res |-> Result("GroupCreateMember", err, data, NoTx)]
        member == [GroupId |-> groupID, UserId |-> userID,
                   CreateAt |-> time, DeleteAt |-> 0]
    IN
    IF ~GroupMemberIsValid(member) THEN
        ret("model.group_member.invalid", NoData, GroupMembers)
    ELSE
        LET ins == GroupMembersInsert(GroupMembers, member) IN
        IF ins.err # NoErr THEN
            IF IsUniqueConstraintError(ins.err,
                   {"GroupId", "UserId", "groupmembers_pkey", "PRIMARY"})
            THEN ret("store.sql_group.create_member.unique_error", NoData, GroupMembers)
            ELSE ret("store.sql_group.create_member.save.insert_error", NoData,
                     GroupMembers)
        ELSE
            LET sel == GroupMembersSelectOne(ins.rows, groupID, userID) IN
            IF sel = {} THEN
                ret("store.sql_group.create_member.no_rows", NoData, ins.rows)
            ELSE
                ret(NoErr, MemberData(CHOOSE r \in sel : TRUE), ins.rows)

\* GroupDeleteMember from the return of its SELECT (251) on
GroupDeleteMemberAfterSelect(groupID, userID, sel, foundRows, time) ==
    LET ret(err, data, rows) ==
            [GroupMembers |-> rows,
             res |-> Result("GroupDeleteMember", err, data, NoTx)]
    IN
    IF ~IsValidId(groupID) THEN
        ret("store.sql_group.delete_member.invalid_group_id", NoData, GroupMembers)
    ELSE IF ~IsValidId(userID) THEN
        ret("store.sql_group.delete_member.invalid_user_id", NoData, GroupMembers)
    ELSE IF sel = {} THEN
        ret("store.sql_group.delete_member.no_rows", NoData, GroupMembers)
    ELSE
        LET retrievedMember == CHOOSE r \in sel : TRUE IN
        IF AlreadyDeleted(retrievedMember) THEN
            ret("store.sql_group.delete_member.already_deleted", NoData, GroupMembers)
        ELSE
            LET m == [retrievedMember EXCEPT !.DeleteAt = time]
                upd == GroupMembersUpdate(GroupMembers, m)
            IN
            IF upd.err # NoErr THEN
                ret("store.sql_scheme.delete_member.update_error", NoData, GroupMembers)
            ELSE IF RowsAffected(GroupMembers, upd, foundRows) # 1 THEN
                ret("store.sql_scheme.delete_member.no_rows_affected", NoData, upd.rows)
            ELSE
                ret(NoErr, MemberData(m), upd.rows)

GroupDeleteMemberOp(groupID, userID, time) ==
    GroupDeleteMemberAfterSelect(groupID, userID,
        GroupMembersSelectOne(GroupMembers, groupID, userID), TRUE, time)

\* the (groupID, userID) pairs callers pass: well-formed ones and one of each
\* malformed kind
MemberKeyInputs ==
    (GroupIdPool \X UserIds) \cup { <<BadId, "u1">>, <<"g1", BadId>> }

GroupCreateMember ==
    \E k \in MemberKeyInputs, time \in GetMillis :
        LET r == GroupCreateMemberOp(k[1], k[2], time) IN
        /\ Call(r, time)
        /\ GroupMembers' = r.GroupMembers
        /\ UNCHANGED <<Groups, GroupTeams, GroupChannels, extern>>

GroupDeleteMember ==
    \E k \in MemberKeyInputs, time \in GetMillis :
        LET r == GroupDeleteMemberOp(k[1], k[2], time) IN
        /\ Call(r, time)
        /\ GroupMembers' = r.GroupMembers
        /\ UNCHANGED <<Groups, GroupTeams, GroupChannels, extern>>

----------------------------------------------------------------------------
(* SyncableLinkRepository *)

GSTeam == "Team"
GSChannel == "Channel"
GSTypes == {GSTeam, GSChannel}
\* the value of a GroupSyncable's Type that nothing has set
GSUnset == "unset"

\* "Group%ss": the relation a type selects
SyncableTable(type) == IF type = GSTeam THEN GroupTeams ELSE GroupChannels

\* "%sId": the key column of that relation
SyncableKey(type, row) == IF type = GSTeam THEN row.TeamId ELSE row.ChannelId

\* the row a GroupSyncable is stored as
SyncableRow(type, gs) ==
    IF type = GSTeam
    THEN [GroupId |-> gs.GroupId, TeamId |-> gs.SyncableId,
          CanLeave |-> gs.CanLeave, AutoAdd |-> gs.AutoAdd,
          CreateAt |-> gs.CreateAt, UpdateAt |-> gs.UpdateAt, DeleteAt |-> gs.DeleteAt]
    ELSE [GroupId |-> gs.GroupId, ChannelId |-> gs.SyncableId,
          CanLeave |-> gs.CanLeave, AutoAdd |-> gs.AutoAdd,
          CreateAt |-> gs.CreateAt, UpdateAt |-> gs.UpdateAt, DeleteAt |-> gs.DeleteAt]

\* gorp scanning a row of either relation into a model.GroupSyncable: the key
\* column (TeamId or ChannelId) is not scanned, and no column holds the Type
SyncableScan(row) ==
    [GroupId |-> row.GroupId, SyncableId |-> "", Type |-> GSUnset,
     CanLeave |-> row.CanLeave, AutoAdd |-> row.AutoAdd,
     CreateAt |-> row.CreateAt, UpdateAt |-> row.UpdateAt, DeleteAt |-> row.DeleteAt]

\* SELECT * from Group%[1]ss WHERE GroupId = :GroupId AND %[1]sId = :SyncableId
SyncableSelectOne(type, groupID, syncableID) ==
    { r \in SyncableTable(type) :
        r.GroupId = groupID /\ SyncableKey(type, r) = syncableID }

\* a variant of SyncableInsert: the relation has no primary key
SyncableInsert_NoKey(type, gs) ==
    [err |-> NoErr, rows |-> SyncableTable(type) \cup {SyncableRow(type, gs)},
     count |-> 1]

\* INSERT INTO Group%ss: primary key (GroupId, %sId)
SyncableInsert(type, gs) ==
    IF SyncableSelectOne(type, gs.GroupId, gs.SyncableId) # {}
    THEN [err |-> "pkey", rows |-> SyncableTable(type), count |-> 0]
    ELSE [err |-> NoErr, rows |-> SyncableTable(type) \cup {SyncableRow(type, gs)},
          count |-> 1]

\* UPDATE Group%ss SET CanLeave = %t, AutoAdd = %t, UpdateAt = %d
SyncableUpdateStmt(type, gs) ==
    { [r EXCEPT !.CanLeave = gs.CanLeave, !.AutoAdd = gs.AutoAdd,
                !.UpdateAt = gs.UpdateAt] : r \in SyncableTable(type) }

\* a variant of SyncableDeleteStmt: the rows matched are removed
SyncableDeleteStmt_Remove(type, gs) ==
    LET matched == SyncableSelectOne(type, gs.GroupId, gs.SyncableId) IN
    [rows |-> SyncableTable(type) \ matched, count |-> Cardinality(matched)]

\* UPDATE Group%ss SET DeleteAt = %d, UpdateAt = %d WHERE GroupId = '%s' AND %sId = '%s'
SyncableDeleteStmt(type, gs) ==
    LET matched == SyncableSelectOne(type, gs.GroupId, gs.SyncableId) IN
    [rows |-> (SyncableTable(type) \ matched) \cup
              { [r EXCEPT !.DeleteAt = gs.DeleteAt, !.UpdateAt = gs.UpdateAt] :
                  r \in matched },
     count |-> Cardinality(matched)]

\* a variant of SyncableWrite: the rows go to GroupTeams whatever the type
SyncableWrite_Teams(type, rows) ==
    [GroupTeams |-> rows, GroupChannels |-> GroupChannels]

\* the store with the relation of a type replaced
SyncableWrite(type, rows) ==
    IF type = GSTeam THEN [GroupTeams |-> rows, GroupChannels |-> GroupChannels]
    ELSE [GroupTeams |-> GroupTeams, GroupChannels |-> rows]

SyncableRet(op, err, data, type, rows) ==
    [tables |-> SyncableWrite(type, rows), res |-> Result(op, err, data, NoTx)]

\* a variant of NoChange: an update that changes neither flag is not noticed
NoChange_Unnoticed(retrieved, groupSyncable) == FALSE

\* "Check if no update is required": both flags passed are the stored ones
NoChange(retrieved, groupSyncable) ==
    /\ retrieved.AutoAdd = groupSyncable.AutoAdd
    /\ retrieved.CanLeave = groupSyncable.CanLeave

GroupCreateGroupSyncableOp(groupSyncable, time) ==
    LET type == groupSyncable.Type
        ret(err, data, rows) ==
            SyncableRet("GroupCreateGroupSyncable", err, data, type, rows)
    IN
    IF ~GroupSyncableIsValid(groupSyncable) THEN
        ret("model.group_syncable.invalid", NoData, SyncableTable(type))
    ELSE
        LET gs == [groupSyncable EXCEPT !.DeleteAt = 0, !.CreateAt = time,
                                        !.UpdateAt = time]
            ins == SyncableInsert(type, gs)
        IN
        IF ins.err # NoErr THEN
            ret("store.sql_group.create_group_syncable.insert_error", NoData,
                SyncableTable(type))
        ELSE IF ins.count = 0 THEN
            ret("store.sql_group.create_group_syncable.no_rows_affected", NoData,
                ins.rows)
        ELSE
            ret(NoErr, SyncableData(gs), ins.rows)

\* a variant of GroupGetGroupSyncableOp: the entity is handed back as scanned
GroupGetGroupSyncableOp_AsScanned(groupID, syncableID, syncableType) ==
    LET sel == SyncableSelectOne(syncableType, groupID, syncableID)
    IN
    IF sel = {} THEN
        Result("GroupGetGroupSyncable", NoErr, NoData, NoTx)
    ELSE
        Result("GroupGetGroupSyncable", NoErr,
               SyncableData(SyncableScan(CHOOSE r \in sel : TRUE)), NoTx)

GroupGetGroupSyncableOp(groupID, syncableID, syncableType) ==
    LET sel == SyncableSelectOne(syncableType, groupID, syncableID)
    IN
    IF sel = {} THEN
        \* sql.ErrNoRows: no error is set, and the nil entity is the data
        Result("GroupGetGroupSyncable", NoErr, NoData, NoTx)
    ELSE
        LET groupSyncable == [SyncableScan(CHOOSE r \in sel : TRUE)
                                 EXCEPT !.SyncableId = syncableID]
        IN Result("GroupGetGroupSyncable", NoErr, SyncableData(groupSyncable), NoTx)

\* "SELECT * from Group%[1]ss WHERE GroupId = :GroupId"
SyncablesByGroupSelect(syncableType, groupID) ==
    { r \in SyncableTable(syncableType) : r.GroupId = groupID }

\* a scanned row made into a model.GroupSyncable: the columns and the key
\* column as SyncableId; the Type is not assigned
SyncableOfScanner(syncableType, gsScan) ==
    [GroupId |-> gsScan.GroupId, SyncableId |-> SyncableKey(syncableType, gsScan),
     Type |-> GSUnset, CanLeave |-> gsScan.CanLeave, AutoAdd |-> gsScan.AutoAdd,
     CreateAt |-> gsScan.CreateAt, UpdateAt |-> gsScan.UpdateAt,
     DeleteAt |-> gsScan.DeleteAt]

\* sorted is the order the database returned the selected rows in
GroupGetAllGroupSyncablesByGroupPageOp(groupID, syncableType, offset, limit, sorted) ==
    LET groupSyncableScanners == LimitOffset(sorted, limit, offset)
        groupSyncables ==
            [i \in 1..Len(groupSyncableScanners) |->
                SyncableOfScanner(syncableType, groupSyncableScanners[i])]
    IN Result("GroupGetAllGroupSyncablesByGroupPage", NoErr,
              SyncablesData(groupSyncables), NoTx)

GroupUpdateGroupSyncableOp(groupSyncable, time) ==
    LET type == groupSyncable.Type
        ret(err, data, rows) ==
            SyncableRet("GroupUpdateGroupSyncable", err, data, type, rows)
        sel == SyncableSelectOne(type, groupSyncable.GroupId, groupSyncable.SyncableId)
    IN
    IF sel = {} THEN
        ret("store.sql_group.update_group_syncable.no_rows", NoData, SyncableTable(type))
    ELSE
        LET retrieved == SyncableScan(CHOOSE r \in sel : TRUE) IN
        IF ~GroupSyncableIsValid(groupSyncable) THEN
            ret("model.group_syncable.invalid", NoData, SyncableTable(type))
        ELSE IF NoChange(retrieved, groupSyncable) THEN
            ret("store.sql_group.update_group_syncable.no_change", NoData,
                SyncableTable(type))
        ELSE
            LET gs == [ResetNotUpdatable(groupSyncable, retrieved)
                          EXCEPT !.UpdateAt = time]
            IN ret(NoErr, SyncableData(gs), SyncableUpdateStmt(type, gs))

\* GroupDeleteGroupSyncable from the return of its SELECT (457) on
GroupDeleteGroupSyncableAfterSelect(groupID, syncableID, syncableType, sel, foundRows, time) ==
    LET ret(err, data, rows) ==
            SyncableRet("GroupDeleteGroupSyncable", err, data, syncableType, rows)
    IN
    IF ~IsValidId(groupID) THEN
        ret("store.sql_group.delete_group_syncable.invalid_group_id", NoData,
            SyncableTable(syncableType))
    ELSE IF ~IsValidId(syncableID) THEN
        ret("store.sql_group.delete_group_syncable.invalid_syncable_id", NoData,
            SyncableTable(syncableType))
    ELSE IF sel = {} THEN
        ret("store.sql_group.delete_group_syncable.no_rows", NoData,
            SyncableTable(syncableType))
    ELSE
        LET groupSyncable == SyncableScan(CHOOSE r \in sel : TRUE) IN
        IF AlreadyDeleted(groupSyncable) THEN
            ret("store.sql_group.delete_group_syncable.already_deleted", NoData,
                SyncableTable(syncableType))
        ELSE
            LET gs == [groupSyncable EXCEPT !.SyncableId = syncableID,
                                            !.Type = syncableType,
                                            !.DeleteAt = time, !.UpdateAt = time]
                upd == SyncableDeleteStmt(syncableType, gs)
            IN
            IF RowsAffected(SyncableTable(syncableType), upd, foundRows) = 0 THEN
                ret("store.sql_group.delete_group_syncable.no_rows_affected", NoData,
                    upd.rows)
            ELSE
                ret(NoErr, SyncableData(gs), upd.rows)

GroupDeleteGroupSyncableOp(groupID, syncableID, syncableType, time) ==
    GroupDeleteGroupSyncableAfterSelect(groupID, syncableID, syncableType,
        SyncableSelectOne(syncableType, groupID, syncableID), TRUE, time)

\* the (groupID, syncableID, type) keys of the links one run works on: two
\* links of one relation, or one link of each relation
TeamLinkKeys == { <<"g1", "t1", GSTeam>>, <<"g2", "t1", GSTeam>> }
ChannelLinkKeys == { <<"g1", "c1", GSChannel>>, <<"g2", "c1", GSChannel>> }
MixedLinkKeys == { <<"g1", "t1", GSTeam>>, <<"g1", "c1", GSChannel>> }
LinkKeySets == {TeamLinkKeys, ChannelLinkKeys, MixedLinkKeys}

\* the keys callers pass: the run's keys, one of each malformed kind, and
\* a key that is another relation's
SyncableKeyInputs(keys) ==
    keys \cup { <<BadId, "t1", GSTeam>>, <<"g1", BadId, GSChannel>>,
                <<"g1", "c1", GSTeam>> }

\* what callers pass as a GroupSyncable: its key, the two flags, and stamps
\* of the caller's own in CreateAt, UpdateAt and DeleteAt
GroupSyncableInput(k, canLeave, autoAdd) ==
    [GroupId |-> k[1], SyncableId |-> k[2], Type |-> k[3],
     CanLeave |-> canLeave, AutoAdd |-> autoAdd,
     CreateAt |-> Stamp, UpdateAt |-> Stamp, DeleteAt |-> Stamp]

GroupSyncableInputs(keys) ==
    { GroupSyncableInput(k, cl, aa) : k \in keys, cl \in BOOLEAN, aa \in BOOLEAN }
    \cup { GroupSyncableInput(<<BadId, "t1", GSTeam>>, TRUE, TRUE) }

GroupCreateGroupSyncable(keys) ==
    \E groupSyncable \in GroupSyncableInputs(keys), time \in GetMillis :
        LET r == GroupCreateGroupSyncableOp(groupSyncable, time) IN
        /\ Call(r, time)
        /\ GroupTeams' = r.tables.GroupTeams
        /\ GroupChannels' = r.tables.GroupChannels
        /\ UNCHANGED <<Groups, GroupMembers, extern>>

GroupGetGroupSyncable(keys) ==
    \E k \in SyncableKeyInputs(keys) :
        /\ Call([res |-> GroupGetGroupSyncableOp(k[1], k[2], k[3])], now)
        /\ UNCHANGED <<store, extern>>

GroupGetAllGroupSyncablesByGroupPage(keys) ==
    \E k \in keys, page \in PageInputs :
        \E sorted \in OrderByCreateAtDesc(SyncablesByGroupSelect(k[3], k[1])) :
            /\ Call([res |-> GroupGetAllGroupSyncablesByGroupPageOp(
                                 k[1], k[3], page[1], page[2], sorted)], now)
            /\ UNCHANGED <<store, extern>>

GroupUpdateGroupSyncable(keys) ==
    \E groupSyncable \in GroupSyncableInputs(keys), time \in GetMillis :
        LET r == GroupUpdateGroupSyncableOp(groupSyncable, time) IN
        /\ Call(r, time)
        /\ GroupTeams' = r.tables.GroupTeams
        /\ GroupChannels' = r.tables.GroupChannels
        /\ UNCHANGED <<Groups, GroupMembers, extern>>

GroupDeleteGroupSyncable(keys) ==
    \E k \in SyncableKeyInputs(keys), time \in GetMillis :
        LET r == GroupDeleteGroupSyncableOp(k[1], k[2], k[3], time) IN
        /\ Call(r, time)
        /\ GroupTeams' = r.tables.GroupTeams
        /\ GroupChannels' = r.tables.GroupChannels
        /\ UNCHANGED <<Groups, GroupMembers, extern>>

----------------------------------------------------------------------------
(* The repositories under call.  The relations are independent of one      *)
(* another (no statement of a repository reads or writes another's), so a  *)
(* run works on one repository, and a run on the links on one set of keys. *)

\* the keys of the stored links
StoredLinkKeys ==
    { <<r.GroupId, r.TeamId, GSTeam>> : r \in GroupTeams }
    \cup { <<r.GroupId, r.ChannelId, GSChannel>> : r \in GroupChannels }

NoGroups == Groups = {}
NoMembers == GroupMembers = {}
NoLinks == StoredLinkKeys = {}

\* the key sets a run on the links can be working on
RunLinkKeys == { keys \in LinkKeySets : StoredLinkKeys \subseteq keys }

Next ==
    \/ NoMembers /\ NoLinks /\ GroupCreate
    \/ NoMembers /\ NoLinks /\ GroupGet
    \/ NoMembers /\ NoLinks /\ GroupGetAllPage
    \/ NoMembers /\ NoLinks /\ GroupUpdate
    \/ NoMembers /\ NoLinks /\ GroupDelete
    \/ NoGroups /\ NoLinks /\ GroupCreateMember
    \/ NoGroups /\ NoLinks /\ GroupDeleteMember
    \/ NoGroups /\ NoMembers /\ \E keys \in RunLinkKeys : GroupCreateGroupSyncable(keys)
    \/ NoGroups /\ NoMembers /\ \E keys \in RunLinkKeys : GroupGetGroupSyncable(keys)
    \/ NoGroups /\ NoMembers /\
          \E keys \in RunLinkKeys : GroupGetAllGroupSyncablesByGroupPage(keys)
    \/ NoGroups /\ NoMembers /\ \E keys \in RunLinkKeys : GroupUpdateGroupSyncable(keys)
    \/ NoGroups /\ NoMembers /\ \E keys \in RunLinkKeys : GroupDeleteGroupSyncable(keys)

Spec == Init /\ [][Next]_vars

\* the link repository alone, on one set of keys
NextSyncable ==
    \/ \E keys \in RunLinkKeys : GroupCreateGroupSyncable(keys)
    \/ \E keys \in RunLinkKeys : GroupGetGroupSyncable(keys)
    \/ \E keys \in RunLinkKeys : GroupGetAllGroupSyncablesByGroupPage(keys)
    \/ \E keys \in RunLinkKeys : GroupUpdateGroupSyncable(keys)
    \/ \E keys \in RunLinkKeys : GroupDeleteGroupSyncable(keys)

SpecSyncable == Init /\ [][NextSyncable]_vars

----------------------------------------------------------------------------
(* ReconciliationQueryEngine *)

\* SQL NULL in a timestamp column
NullTime == -1

\* rows standing for the all-NULL side of an outer join
NullGroupMember == [GroupId |-> NULL, UserId |-> NULL, CreateAt |-> NullTime,
                    DeleteAt |-> NullTime]
NullGroup == [Id |-> NULL, Name |-> NULL, DisplayName |-> NULL,
              CreateAt |-> NullTime, UpdateAt |-> NullTime, DeleteAt |-> NullTime]
NullLink == [GroupId |-> NULL, SyncableId |-> NULL, CanLeave |-> FALSE,
             AutoAdd |-> FALSE, CreateAt |-> NullTime, UpdateAt |-> NullTime,
             DeleteAt |-> NullTime]
NullTeamMember == [SyncableId |-> NULL, UserId |-> NULL]
NullHistory == [ChannelId |-> NULL, UserId |-> NULL, LeaveTime |-> NullTime]

\* the columns the table maps give GroupTeams and GroupChannels: the
\* SyncableId column is renamed TeamId or ChannelId
LinkColumns(type) ==
    {"GroupId", IF type = GSTeam THEN "TeamId" ELSE "ChannelId",
     "CanLeave", "AutoAdd", "CreateAt", "UpdateAt", "DeleteAt"}

\* the rows of a link relation as a statement reads them, the key column
\* under the one name SyncableId
LinkRows(type) ==
    { [GroupId |-> r.GroupId, SyncableId |-> SyncableKey(type, r),
       CanLeave |-> r.CanLeave, AutoAdd |-> r.AutoAdd,
       CreateAt |-> r.CreateAt, UpdateAt |-> r.UpdateAt, DeleteAt |-> r.DeleteAt] :
        r \in SyncableTable(type) }

\* FROM GroupMembers JOIN GroupTeams ON GroupTeams.GroupId = GroupMembers.GroupId
\*                   JOIN Groups ON Groups.Id = GroupMembers.GroupId
TeamInnerJoin ==
    { [gm |-> t[1], gt |-> t[2], g |-> t[3], null |-> FALSE] :
        t \in { q \in GroupMembers \X LinkRows(GSTeam) \X Groups :
                  /\ q[2].GroupId = q[1].GroupId
                  /\ q[3].Id = q[1].GroupId } }

\* FULL JOIN TeamMembers ON TeamMembers.SyncableId = GroupTeams.SyncableId
\*                       AND TeamMembers.UserId = GroupMembers.UserId
TeamFullJoin ==
    LET on(l, tm) == tm.SyncableId = l.gt.SyncableId /\ tm.UserId = l.gm.UserId
        both == { [l |-> p[1], tm |-> p[2], tmNull |-> FALSE] :
                    p \in { q \in TeamInnerJoin \X TeamMembers : on(q[1], q[2]) } }
        leftOnly == { [l |-> l, tm |-> NullTeamMember, tmNull |-> TRUE] :
                        l \in { x \in TeamInnerJoin :
                                  ~\E tm \in TeamMembers : on(x, tm) } }
        rightOnly == { [l |-> [gm |-> NullGroupMember, gt |-> NullLink,
                               g |-> NullGroup, null |-> TRUE],
                        tm |-> tm, tmNull |-> FALSE] :
                         tm \in { y \in TeamMembers :
                                    ~\E l \in TeamInnerJoin : on(l, y) } }
    IN both \cup leftOnly \cup rightOnly

\* WHERE TeamMembers.UserId IS NULL AND Groups.DeleteAt = 0 AND ...
\* (a comparison with a NULL column is not true)
TeamWhere(minGroupMembersCreateAt) ==
    { x \in TeamFullJoin :
        /\ x.tmNull
        /\ ~x.l.null
        /\ x.l.g.DeleteAt = 0
        /\ x.l.gt.DeleteAt = 0
        /\ x.l.gt.AutoAdd = TRUE
        /\ x.l.gm.DeleteAt = 0
        /\ x.l.gm.CreateAt >= minGroupMembersCreateAt }

\* the statement of PendingAutoAddTeamMemberships: the link relation it reads
\* and the columns of it that it names, the number of rows it selects, and
\* their (GroupMembers.UserId, GroupTeams.SyncableId) columns
PendingAutoAddTeamMembershipsSql(minGroupMembersCreateAt) ==
    [link |-> GSTeam,
     columns |-> {"GroupId", "SyncableId", "DeleteAt", "AutoAdd"},
     count |-> Cardinality(TeamWhere(minGroupMembersCreateAt)),
     pairs |-> { <<x.l.gm.UserId, x.l.gt.SyncableId>> :
                   x \in TeamWhere(minGroupMembersCreateAt) }]

\* a variant of ChannelInnerJoin: TeamMembers is not joined
ChannelInnerJoin_NoTeamMembers ==
    { [gm |-> t[1], gc |-> t[2], g |-> t[3], c |-> t[4], t |-> t[5],
       tm |-> NullTeamMember, null |-> FALSE] :
        t \in { q \in GroupMembers \X LinkRows(GSChannel) \X Groups \X Channels
                       \X Teams :
                  /\ q[2].GroupId = q[1].GroupId
                  /\ q[3].Id = q[1].GroupId
                  /\ q[4].Id = q[2].SyncableId
                  /\ q[5].Id = q[4].SyncableId } }

\* FROM GroupMembers JOIN GroupChannels ... JOIN Groups ...
\* JOIN Channels ON Channels.Id = GroupChannels.ChannelId
\* JOIN Teams ON Teams.Id = Channels.SyncableId
\* JOIN TeamMembers ON TeamMembers.SyncableId = Teams.Id
\*                  AND TeamMembers.UserId = GroupMembers.UserId
ChannelInnerJoin ==
    { [gm |-> t[1], gc |-> t[2], g |-> t[3], c |-> t[4], t |-> t[5], tm |-> t[6],
       null |-> FALSE] :
        t \in { q \in GroupMembers \X LinkRows(GSChannel) \X Groups \X Channels
                       \X Teams \X TeamMembers :
                  /\ q[2].GroupId = q[1].GroupId
                  /\ q[3].Id = q[1].GroupId
                  /\ q[4].Id = q[2].SyncableId
                  /\ q[5].Id = q[4].SyncableId
                  /\ q[6].SyncableId = q[5].Id
                  /\ q[6].UserId = q[1].UserId } }

\* FULL JOIN ChannelMemberHistory
\*   ON ChannelMemberHistory.ChannelId = GroupChannels.ChannelId
\*  AND ChannelMemberHistory.UserId = GroupMembers.UserId
ChannelFullJoin ==
    LET on(l, h) == h.ChannelId = l.gc.SyncableId /\ h.UserId = l.gm.UserId
        both == { [l |-> p[1], h |-> p[2], hNull |-> FALSE] :
                    p \in { q \in ChannelInnerJoin \X ChannelMemberHistory :
                              on(q[1], q[2]) } }
        leftOnly == { [l |-> l, h |-> NullHistory, hNull |-> TRUE] :
                        l \in { x \in ChannelInnerJoin :
                                  ~\E h \in ChannelMemberHistory : on(x, h) } }
        rightOnly == { [l |-> [gm |-> NullGroupMember, gc |-> NullLink,
                               g |-> NullGroup,
                               c |-> [Id |-> NULL, SyncableId |-> NULL],
                               t |-> [Id |-> NULL], tm |-> NullTeamMember,
                               null |-> TRUE],
                        h |-> h, hNull |-> FALSE] :
                         h \in { y \in ChannelMemberHistory :
                                   ~\E l \in ChannelInnerJoin : on(l, y) } }
    IN both \cup leftOnly \cup rightOnly

\* a variant of ChannelWhere: memberships created up to the watermark
ChannelWhere_UpTo(minGroupMembersCreateAt) ==
    { x \in ChannelFullJoin :
        /\ x.hNull
        /\ x.h.LeaveTime = NullTime
        /\ ~x.l.null
        /\ x.l.g.DeleteAt = 0
        /\ x.l.gc.DeleteAt = 0
        /\ x.l.gc.AutoAdd = TRUE
        /\ x.l.gm.DeleteAt = 0
        /\ x.l.gm.CreateAt <= minGroupMembersCreateAt }

\* WHERE ChannelMemberHistory.UserId IS NULL
\*   AND ChannelMemberHistory.LeaveTime IS NULL AND Groups.DeleteAt = 0 AND ...
ChannelWhere(minGroupMembersCreateAt) ==
    { x \in ChannelFullJoin :
        /\ x.hNull
        /\ x.h.LeaveTime = NullTime
        /\ ~x.l.null
        /\ x.l.g.DeleteAt = 0
        /\ x.l.gc.DeleteAt = 0
        /\ x.l.gc.AutoAdd = TRUE
        /\ x.l.gm.DeleteAt = 0
        /\ x.l.gm.CreateAt >= minGroupMembersCreateAt }

\* the statement of PendingAutoAddChannelMemberships, as the team one
PendingAutoAddChannelMembershipsSql(minGroupMembersCreateAt) ==
    [link |-> GSChannel,
     columns |-> {"GroupId", "ChannelId", "DeleteAt", "AutoAdd"},
     count |-> Cardinality(ChannelWhere(minGroupMembersCreateAt)),
     pairs |-> { <<x.l.gm.UserId, x.l.gc.SyncableId>> :
                   x \in ChannelWhere(minGroupMembersCreateAt) }]

\* GetMaster().Exec(sql, args): the statement fails when the store does or
\* when it names a column its link relation does not have; otherwise what comes
\* back is a sql.Result, which holds the count of rows and none of the rows
SqlExec(stmt, storeFails) ==
    IF storeFails \/ ~(stmt.columns \subseteq LinkColumns(stmt.link))
    THEN [err |-> "sql: statement failed", sqlResult |-> NoData]
    ELSE [err |-> NoErr,
          sqlResult |-> [kind |-> "sql.Result", RowsAffected |-> stmt.count]]

PendingAutoAddTeamMembershipsOp(minGroupMembersCreateAt, storeFails) ==
    LET x == SqlExec(PendingAutoAddTeamMembershipsSql(minGroupMembersCreateAt),
                     storeFails)
    IN Result("PendingAutoAddTeamMemberships",
              IF x.err # NoErr THEN "store.sql_group.select_error" ELSE NoErr,
              x.sqlResult, NoTx)

PendingAutoAddChannelMembershipsOp(minGroupMembersCreateAt, storeFails) ==
    LET x == SqlExec(PendingAutoAddChannelMembershipsSql(minGroupMembersCreateAt),
                     storeFails)
    IN Result("PendingAutoAddChannelMemberships",
              IF x.err # NoErr THEN "store.sql_group.select_error" ELSE NoErr,
              x.sqlResult, NoTx)

\* the watermarks callers pass
Watermarks == 0..(MaxTime + 1)

PendingAutoAddTeamMemberships ==
    \E minGroupMembersCreateAt \in Watermarks, storeFails \in BOOLEAN :
        /\ res' = PendingAutoAddTeamMembershipsOp(minGroupMembersCreateAt, storeFails)
        /\ UNCHANGED <<store, extern, now, inflight>>

\* a variant of PendingAutoAddChannelMemberships: the call records a
\* channel-member history row for every pair its statement selects
PendingAutoAddChannelMemberships_Recording ==
    \E minGroupMembersCreateAt \in Watermarks, storeFails \in BOOLEAN :
        /\ res' = PendingAutoAddChannelMembershipsOp(minGroupMembersCreateAt, storeFails)
        /\ ChannelMemberHistory' = ChannelMemberHistory \cup
               { [ChannelId |-> p[2], UserId |-> p[1], LeaveTime |-> NullTime] :
                   p \in PendingAutoAddChannelMembershipsSql(minGroupMembersCreateAt).pairs }
        /\ UNCHANGED <<store, TeamMembers, now, inflight>>

PendingAutoAddChannelMemberships ==
    \E minGroupMembersCreateAt \in Watermarks, storeFails \in BOOLEAN :
        /\ res' = PendingAutoAddChannelMembershipsOp(minGroupMembersCreateAt, storeFails)
        /\ UNCHANGED <<store, extern, now, inflight>>

----------------------------------------------------------------------------
(* The reconciliation queries over stores the repositories can have built *)

GroupRowAt(id, name, deleteAt) ==
    [Id |-> id, Name |-> name, DisplayName |-> "d1", CreateAt |-> 1,
     UpdateAt |-> IF deleteAt = 0 THEN 1 ELSE deleteAt, DeleteAt |-> deleteAt]

MemberRowAt(groupID, userID, createAt, deleteAt) ==
    [GroupId |-> groupID, UserId |-> userID, CreateAt |-> createAt,
     DeleteAt |-> deleteAt]

LinkRowAt(type, groupID, syncableID, autoAdd, deleteAt) ==
    SyncableRow(type, [GroupId |-> groupID, SyncableId |-> syncableID,
                       CanLeave |-> TRUE, AutoAdd |-> autoAdd, CreateAt |-> 1,
                       UpdateAt |-> IF deleteAt = 0 THEN 1 ELSE deleteAt,
                       DeleteAt |-> deleteAt])

\* g1 live or soft-deleted, g2 live
GroupsChoices ==
    { {GroupRowAt("g1", "eng", d), GroupRowAt("g2", "ops", 0)} : d \in {0, MaxTime} }

\* a membership is absent, live since any time, or soft-deleted
MemberChoices(groupID, userID) ==
    {{}} \cup { {MemberRowAt(groupID, userID, c, 0)} : c \in 1..MaxTime }
         \cup { {MemberRowAt(groupID, userID, 1, MaxTime)} }

GroupMembersChoices ==
    { a \cup b \cup c :
        a \in MemberChoices("g1", "u1"), b \in MemberChoices("g2", "u1"),
        c \in { {}, {MemberRowAt("g1", "u2", 1, 0)} } }

\* the link of g1 is absent, live with either AutoAdd, or soft-deleted; the
\* link of g2 is absent or live with AutoAdd
LinkChoices(type, syncableID) ==
    { a \cup b :
        a \in {{}} \cup { {LinkRowAt(type, "g1", syncableID, aa, 0)} : aa \in BOOLEAN }
                   \cup { {LinkRowAt(type, "g1", syncableID, TRUE, MaxTime)} },
        b \in { {}, {LinkRowAt(type, "g2", syncableID, TRUE, 0)} } }

\* u1 is or is not a member of t1; u2 is a member of t1, of t2 only, or of none
TeamMembersChoices ==
    { a \cup b :
        a \in { {}, {[SyncableId |-> "t1", UserId |-> "u1"]} },
        b \in { {}, {[SyncableId |-> "t1", UserId |-> "u2"]},
                {[SyncableId |-> "t2", UserId |-> "u2"]} } }

\* u1 never joined c1, joined it, or joined and left it
ChannelMemberHistoryChoices ==
    { {}, {[ChannelId |-> "c1", UserId |-> "u1", LeaveTime |-> NullTime]},
      {[ChannelId |-> "c1", UserId |-> "u1", LeaveTime |-> MaxTime]} }

InitPending ==
    /\ Groups \in GroupsChoices
    /\ GroupMembers \in GroupMembersChoices
    /\ \/ /\ GroupTeams \in LinkChoices(GSTeam, "t1")
          /\ GroupChannels = {}
          /\ ChannelMemberHistory = {}
       \/ /\ GroupTeams = {}
          /\ GroupChannels \in LinkChoices(GSChannel, "c1")
          /\ ChannelMemberHistory \in ChannelMemberHistoryChoices
    /\ TeamMembers \in TeamMembersChoices
    /\ now = MaxTime
    /\ res = Result("Init", NoErr, NoData, NoTx)
    /\ inflight = NoCalls

NextPending ==
    \/ PendingAutoAddTeamMemberships
    \/ PendingAutoAddChannelMemberships

SpecPending == InitPending /\ [][NextPending]_vars

----------------------------------------------------------------------------
(* Concurrent callers.  No call holds a lock or a transaction across its   *)
(* statements (GroupCreate apart), so between the SELECT of a call and its *)
(* UPDATE the statements of another call can run.  A call is two steps:    *)
(* its SELECT, and the rest of it from the return of the SELECT on.        *)

\* the operations that read a row and then write it
GroupRaceOps == {"GroupUpdate", "GroupDelete"}
MemberRaceOps == {"GroupDeleteMember"}
SyncableRaceOps == {"GroupDeleteGroupSyncable"}

\* what the racing callers pass: the keys of the stored rows
RaceGroupInputs == GroupInputs({"g1"}, {Stamp})
RaceMemberKeys == { <<"g1", "u1">> }
RaceLinkKeys == { <<"g1", "t1", GSTeam>>, <<"g1", "c1", GSChannel>> }

\* g1 and g2, the member (g1, u1) and the links of g1 to t1 and to c1, all
\* live, as Create left them at time 1
InitRace ==
    /\ Groups = { GroupRowAt("g1", "eng", 0), GroupRowAt("g2", "ops", 0) }
    /\ GroupMembers = { MemberRowAt("g1", "u1", 1, 0) }
    /\ GroupTeams = { LinkRowAt(GSTeam, "g1", "t1", TRUE, 0) }
    /\ GroupChannels = { LinkRowAt(GSChannel, "g1", "c1", TRUE, 0) }
    /\ TeamMembers = {}
    /\ ChannelMemberHistory = {}
    /\ now = 1
    /\ res = Result("Init", NoErr, NoData, NoTx)
    /\ inflight = NoCalls

\* the other callers are idle or in calls on the same repository
Racing(c, ops) == \A d \in Callers \ {c} : inflight[d].op \in ops \cup {"idle"}

\* caller c enters op with arg and its SELECT returns sel
Select(c, op, arg, sel) ==
    /\ inflight[c].pc = "idle"
    /\ inflight' = [inflight EXCEPT ![c] =
                        [op |-> op, pc |-> "selected", arg |-> arg, sel |-> sel,
                         res |-> Idle.res]]
    /\ UNCHANGED <<store, extern, now, res>>

\* the call of caller c read the clock as time and returns result
Return(c, result, time) ==
    /\ res' = result
    /\ now' = IF result.Err = NoErr THEN time ELSE now
    /\ inflight' = [inflight EXCEPT ![c].pc = "returned", ![c].res = result]

GroupUpdateSelect(c) ==
    \E group \in RaceGroupInputs :
        /\ Racing(c, GroupRaceOps)
        /\ Select(c, "GroupUpdate", group, GroupsSelectOne(Groups, group.Id))

GroupUpdateFinish(c) ==
    \E foundRows \in BOOLEAN, time \in GetMillis :
        /\ inflight[c].op = "GroupUpdate" /\ inflight[c].pc = "selected"
        /\ LET r == GroupUpdateAfterSelect(inflight[c].arg, inflight[c].sel,
                                           foundRows, time)
           IN /\ Groups' = r.Groups
              /\ Return(c, r.res, time)
        /\ UNCHANGED <<GroupMembers, GroupTeams, GroupChannels, extern>>

GroupDeleteSelect(c) ==
    \E groupID \in { g.Id : g \in RaceGroupInputs } :
        /\ Racing(c, GroupRaceOps)
        /\ Select(c, "GroupDelete", groupID, GroupsSelectOne(Groups, groupID))

GroupDeleteFinish(c) ==
    \E foundRows \in BOOLEAN, time \in GetMillis :
        /\ inflight[c].op = "GroupDelete" /\ inflight[c].pc = "selected"
        /\ LET r == GroupDeleteAfterSelect(inflight[c].arg, inflight[c].sel,
                                           foundRows, time)
           IN /\ Groups' = r.Groups
              /\ Return(c, r.res, time)
        /\ UNCHANGED <<GroupMembers, GroupTeams, GroupChannels, extern>>

GroupDeleteMemberSelect(c) ==
    \E k \in RaceMemberKeys :
        /\ Racing(c, MemberRaceOps)
        /\ Select(c, "GroupDeleteMember", k,
                  GroupMembersSelectOne(GroupMembers, k[1], k[2]))

GroupDeleteMemberFinish(c) ==
    \E foundRows \in BOOLEAN, time \in GetMillis :
        /\ inflight[c].op = "GroupDeleteMember" /\ inflight[c].pc = "selected"
        /\ LET k == inflight[c].arg
               r == GroupDeleteMemberAfterSelect(k[1], k[2], inflight[c].sel,
                                                 foundRows, time)
           IN /\ GroupMembers' = r.GroupMembers
              /\ Return(c, r.res, time)
        /\ UNCHANGED <<Groups, GroupTeams, GroupChannels, extern>>

GroupDeleteGroupSyncableSelect(c) ==
    \E k \in RaceLinkKeys :
        /\ Racing(c, SyncableRaceOps)
        /\ Select(c, "GroupDeleteGroupSyncable", k,
                  SyncableSelectOne(k[3], k[1], k[2]))

GroupDeleteGroupSyncableFinish(c) ==
    \E foundRows \in BOOLEAN, time \in GetMillis :
        /\ inflight[c].op = "GroupDeleteGroupSyncable" /\ inflight[c].pc = "selected"
        /\ LET k == inflight[c].arg
               r == GroupDeleteGroupSyncableAfterSelect(k[1], k[2], k[3],
                                                        inflight[c].sel, foundRows, time)
           IN /\ GroupTeams' = r.tables.GroupTeams
              /\ GroupChannels' = r.tables.GroupChannels
              /\ Return(c, r.res, time)
        /\ UNCHANGED <<Groups, GroupMembers, extern>>

NextRace ==
    \/ \E c \in Callers : GroupUpdateSelect(c)
    \/ \E c \in Callers : GroupUpdateFinish(c)
    \/ \E c \in Callers : GroupDeleteSelect(c)
    \/ \E c \in Callers : GroupDeleteFinish(c)
    \/ \E c \in Callers : GroupDeleteMemberSelect(c)
    \/ \E c \in Callers : GroupDeleteMemberFinish(c)
    \/ \E c \in Callers : GroupDeleteGroupSyncableSelect(c)
    \/ \E c \in Callers : GroupDeleteGroupSyncableFinish(c)

SpecRace == InitRace /\ [][NextRace]_vars

----------------------------------------------------------------------------
(* Properties *)

\* every link key and every GroupSyncable a caller can pass
AllLinkKeys == UNION LinkKeySets
AllSyncableInputs == GroupSyncableInputs(AllLinkKeys)

\* the store as a repository call on the links hands it on
LinkTables == [GroupTeams |-> GroupTeams, GroupChannels |-> GroupChannels]

AlreadyDeletedErrors ==
    { "store.sql_group.delete.already_deleted",
      "store.sql_group.delete_member.already_deleted",
      "store.sql_group.delete_group_syncable.already_deleted" }

\* C1: Group Delete, RemoveMember and SyncableLink Delete, called on a stored
\* row whose DeleteAt is already nonzero, return the already-deleted error,
\* and every stored row (that row's DeleteAt and UpdateAt too) is after the
\* call what it was before it.
C1_DeleteOfDeletedRow ==
    /\ [](\A time \in GetMillis :
            /\ \A g \in Groups : g.DeleteAt # 0 =>
                  LET r == GroupDeleteOp(g.Id, time) IN
                  /\ r.res.Err = "store.sql_group.delete.already_deleted"
                  /\ r.Groups = Groups
            /\ \A m \in GroupMembers : m.DeleteAt # 0 =>
                  LET r == GroupDeleteMemberOp(m.GroupId, m.UserId, time) IN
                  /\ r.res.Err = "store.sql_group.delete_member.already_deleted"
                  /\ r.GroupMembers = GroupMembers
            /\ \A type \in GSTypes : \A l \in SyncableTable(type) : l.DeleteAt # 0 =>
                  LET r == GroupDeleteGroupSyncableOp(l.GroupId, SyncableKey(type, l),
                                                      type, time) IN
                  /\ r.res.Err = "store.sql_group.delete_group_syncable.already_deleted"
                  /\ r.tables = LinkTables)
    /\ [][res'.Err \in AlreadyDeletedErrors => UNCHANGED <<store, extern>>]_vars

\* a SyncableLink Delete has just been refused on a soft-deleted channel link
C1_Witness ==
    /\ res.op = "GroupDeleteGroupSyncable"
    /\ res.Err = "store.sql_group.delete_group_syncable.already_deleted"
    /\ \E l \in GroupChannels : l.DeleteAt # 0

\* C2: a second Group Create with the Name of a stored group returns the
\* Name-uniqueness error and no value; the stored group keeps all its fields
\* and is what Get returns.
C2_SecondCreateIsNameConflict ==
    \A g \in Groups : \A group \in GroupCreateInputs :
        \A id \in NewIds : \A time \in GetMillis :
            (group.Id = "" /\ group.Name = g.Name) =>
                LET r == GroupCreateOp(group, id, time) IN
                /\ r.res.Err = "store.sql_group.create.unique_constraint"
                /\ r.res.Data = NoData
                /\ r.Groups = Groups
                /\ GroupGetOp(g.Id).Data = GroupData(g)

\* C3: GroupMembers holds at most one row per (GroupId, UserId), and
\* AddMember on the key of a row that RemoveMember soft-deleted returns the
\* already-a-member error and leaves the row soft-deleted, DeleteAt unchanged.
C3_OneRowPerMemberKey ==
    /\ \A a, b \in GroupMembers :
          (a.GroupId = b.GroupId /\ a.UserId = b.UserId) => a = b
    /\ \A m \in GroupMembers : \A time \in GetMillis :
          m.DeleteAt # 0 =>
              LET r == GroupCreateMemberOp(m.GroupId, m.UserId, time) IN
              /\ r.res.Err = "store.sql_group.create_member.unique_error"
              /\ r.GroupMembers = GroupMembers

\* AddMember has just been refused while the only stored membership is
\* soft-deleted
C3_Witness ==
    /\ res.op = "GroupCreateMember"
    /\ res.Err = "store.sql_group.create_member.unique_error"
    /\ Cardinality(GroupMembers) = 1
    /\ \A m \in GroupMembers : m.DeleteAt # 0

\* C4: a successful Update of a Group or of a SyncableLink leaves the stored
\* CreateAt and DeleteAt of the row as they were, whatever the caller passed
\* in them, and the entity returned carries the stored values.
C4_UpdateKeepsCreateAtDeleteAt ==
    \A time \in GetMillis :
        /\ \A group \in GroupUpdateInputs : \A foundRows \in BOOLEAN :
              LET r == GroupUpdateOp(group, foundRows, time) IN
              r.res.Err = NoErr =>
                  \E old \in Groups :
                      /\ old.Id = group.Id
                      /\ r.res.Data.v.CreateAt = old.CreateAt
                      /\ r.res.Data.v.DeleteAt = old.DeleteAt
                      /\ \A new \in r.Groups : new.Id = group.Id =>
                            new.CreateAt = old.CreateAt /\ new.DeleteAt = old.DeleteAt
                      /\ \E new \in r.Groups : new.Id = group.Id
        /\ \A gs \in AllSyncableInputs :
              LET r == GroupUpdateGroupSyncableOp(gs, time)
                  after == IF gs.Type = GSTeam THEN r.tables.GroupTeams
                           ELSE r.tables.GroupChannels
              IN
              r.res.Err = NoErr =>
                  \E old \in SyncableSelectOne(gs.Type, gs.GroupId, gs.SyncableId) :
                      /\ r.res.Data.v.CreateAt = old.CreateAt
                      /\ r.res.Data.v.DeleteAt = old.DeleteAt
                      /\ \A new \in after :
                            (new.GroupId = gs.GroupId
                             /\ SyncableKey(gs.Type, new) = gs.SyncableId) =>
                                new.CreateAt = old.CreateAt /\ new.DeleteAt = old.DeleteAt
                      /\ \E new \in after :
                            new.GroupId = gs.GroupId
                            /\ SyncableKey(gs.Type, new) = gs.SyncableId

\* an Update of a soft-deleted group has just succeeded: callers pass 0 or
\* Stamp as DeleteAt, and the entity returned has the stored one
C4_Witness ==
    /\ res.op = "GroupUpdate"
    /\ res.Err = NoErr
    /\ res.Data.v.DeleteAt \in 1..MaxTime
    /\ \E g \in Groups : g.Id = res.Data.v.Id /\ g.DeleteAt = res.Data.v.DeleteAt

\* C5: SyncableLink Update with AutoAdd and CanLeave both equal to the stored
\* row's returns the no-change error and writes nothing: every row of both
\* link relations, the target row's UpdateAt too, is unchanged.
C5_UpdateWithoutChange ==
    /\ [](\A gs \in AllSyncableInputs : \A time \in GetMillis :
            \A old \in SyncableSelectOne(gs.Type, gs.GroupId, gs.SyncableId) :
                (old.AutoAdd = gs.AutoAdd /\ old.CanLeave = gs.CanLeave) =>
                    LET r == GroupUpdateGroupSyncableOp(gs, time) IN
                    /\ r.res.Err = "store.sql_group.update_group_syncable.no_change"
                    /\ r.tables = LinkTables)
    /\ [][res'.Err = "store.sql_group.update_group_syncable.no_change"
             => UNCHANGED <<store, extern>>]_vars

\* a SyncableLink Update has just been refused for changing nothing
C5_Witness ==
    /\ res.op = "GroupUpdateGroupSyncable"
    /\ res.Err = "store.sql_group.update_group_syncable.no_change"
    /\ StoredLinkKeys # {}

\* C6: SyncableLink Get returns a not-found error, and no value, whenever the
\* relation the type selects holds no row with the key asked for.
C6_GetOfAbsentLinkIsNotFound ==
    \A k \in AllLinkKeys :
        SyncableSelectOne(k[3], k[1], k[2]) = {} =>
            LET r == GroupGetGroupSyncableOp(k[1], k[2], k[3]) IN
            r.Err # NoErr /\ r.Data = NoData

\* C7: for both types, whenever SyncableLink Get returns an entity, its
\* SyncableId is the id asked for and its other fields are those of the
\* stored row with that key in the relation the type selects.
C7_GetReturnsStoredLink ==
    \A k \in SyncableKeyInputs(AllLinkKeys) :
        LET r == GroupGetGroupSyncableOp(k[1], k[2], k[3]) IN
        r.Data # NoData =>
            /\ r.Data.v.SyncableId = k[2]
            /\ \E row \in SyncableTable(k[3]) :
                  /\ row.GroupId = k[1]
                  /\ SyncableKey(k[3], row) = k[2]
                  /\ r.Data.v.GroupId = row.GroupId
                  /\ r.Data.v.CanLeave = row.CanLeave
                  /\ r.Data.v.AutoAdd = row.AutoAdd
                  /\ r.Data.v.CreateAt = row.CreateAt
                  /\ r.Data.v.UpdateAt = row.UpdateAt
                  /\ r.Data.v.DeleteAt = row.DeleteAt

\* a Get has just returned a channel link, soft-deleted and updated since
\* its creation
C7_Witness ==
    /\ res.op = "GroupGetGroupSyncable"
    /\ res.Data # NoData
    /\ GroupTeams = {}
    /\ res.Data.v.SyncableId \in ChannelIds
    /\ res.Data.v.DeleteAt # 0
    /\ res.Data.v.UpdateAt # res.Data.v.CreateAt

\* the (UserId, SyncableId) pairs a result's Data hands to the caller: those
\* of a slice of pairs, and none for any other Data
PairsOf(data) == IF data.kind = "pairs" THEN data.rows ELSE {}

\* the pairs C8 describes: a live group with a live AutoAdd link to the team,
\* a live membership of the user created at or after the watermark, and no
\* team-membership record of the user in the team
TeamPairsWanted(minCreateAt) ==
    { p \in UserIds \X TeamIds :
        /\ \E g \in Groups, gt \in GroupTeams, gm \in GroupMembers :
              /\ g.DeleteAt = 0
              /\ gt.GroupId = g.Id /\ gt.TeamId = p[2]
              /\ gt.DeleteAt = 0 /\ gt.AutoAdd
              /\ gm.GroupId = g.Id /\ gm.UserId = p[1]
              /\ gm.DeleteAt = 0 /\ gm.CreateAt >= minCreateAt
        /\ ~\E tm \in TeamMembers : tm.UserId = p[1] /\ tm.SyncableId = p[2] }

\* C8: in every store state PendingAutoAddTeamMemberships(minCreateAt)
\* returns exactly the pairs (UserId, TeamId) with a live group, a live
\* AutoAdd link of it to the team, a live membership of the user in it created
\* at or after minCreateAt, and no team-membership record.
C8_TeamQueryReturnsWantedPairs ==
    \A minCreateAt \in Watermarks :
        PairsOf(PendingAutoAddTeamMembershipsOp(minCreateAt, FALSE).Data)
            = TeamPairsWanted(minCreateAt)

\* C9: where no GroupTeams row has both DeleteAt = 0 and AutoAdd = true,
\* PendingAutoAddTeamMemberships returns the empty set for every watermark.
C9_NoAutoAddLinkNoPairs ==
    (~\E gt \in GroupTeams : gt.DeleteAt = 0 /\ gt.AutoAdd) =>
        \A minCreateAt \in Watermarks :
            LET r == PendingAutoAddTeamMembershipsOp(minCreateAt, FALSE) IN
            r.Err = NoErr /\ PairsOf(r.Data) = {}

\* what C10 says of a pair (UserId, ChannelId) returned for a watermark
ChannelPairJustified(p, minCreateAt) ==
    /\ \E g \in Groups, gc \in GroupChannels, gm \in GroupMembers :
          /\ g.DeleteAt = 0
          /\ gc.GroupId = g.Id /\ gc.ChannelId = p[2]
          /\ gc.DeleteAt = 0 /\ gc.AutoAdd
          /\ gm.GroupId = g.Id /\ gm.UserId = p[1]
          /\ gm.DeleteAt = 0 /\ gm.CreateAt >= minCreateAt
    /\ \E c \in Channels : \E tm \in TeamMembers :
          c.Id = p[2] /\ tm.SyncableId = c.SyncableId /\ tm.UserId = p[1]
    /\ ~\E h \in ChannelMemberHistory : h.ChannelId = p[2] /\ h.UserId = p[1]

C11_ListByGroupOnlyLive ==
    \A k \in AllLinkKeys : \A page \in PageInputs :
        \A sorted \in OrderByCreateAtDesc(SyncablesByGroupSelect(k[3], k[1])) :
            LET r == GroupGetAllGroupSyncablesByGroupPageOp(k[1], k[3], page[1],
                                                            page[2], sorted)
                list == r.Data.v
            IN
            /\ r.Err = NoErr
            /\ \A i \in 1..Len(list) :
                  /\ list[i].GroupId = k[1]
                  /\ list[i].DeleteAt = 0
                  /\ \E row \in SyncableTable(k[3]) :
                        row.GroupId = k[1] /\ SyncableKey(k[3], row) = list[i].SyncableId
            /\ \A i \in 1..(Len(list) - 1) : list[i].CreateAt >= list[i + 1].CreateAt

\* the statements of a transaction log that end the transaction
TxEnds(tx) == { i \in 1..Len(tx) : tx[i] \in {"Rollback", "Commit"} }

\* C12: in Group Create every transaction begun is ended by exactly one of
\* rollback or commit before the call returns; commit is attempted only where
\* the insert succeeded, rollback happens on every failure after begin, and
\* a Create that returns an error leaves Groups unchanged.
C12_CreateEndsItsTransactionOnce ==
    \A group \in GroupCreateInputs : \A id \in NewIds : \A time \in GetMillis :
        LET r == GroupCreateOp(group, id, time)
            tx == r.res.Tx
            inserted == r.Groups # Groups
        IN
        /\ tx # NoTx =>
              /\ Cardinality(TxEnds(tx)) = 1
              /\ (\E i \in TxEnds(tx) : tx[i] = "Commit") => inserted
              /\ ~inserted => \E i \in TxEnds(tx) : tx[i] = "Rollback"
        /\ r.res.Err # NoErr => r.Groups = Groups

\* C13: every repository operation returns exactly one of a value or an
\* error: never a result with both set, and never one with neither.
C13_ValueOrErrorNotBothNotNeither ==
    res.op # "Init" => ((res.Err # NoErr) # (res.Data # NoData))

\* the keys stored in Groups and in GroupMembers
GroupKeys == { g.Id : g \in Groups }
MemberKeys == { <<m.GroupId, m.UserId>> : m \in GroupMembers }

\* C14: no repository operation physically removes a row: the keys present
\* in Groups, GroupMembers, GroupTeams and GroupChannels only grow, and a
\* delete changes a row only by writing its DeleteAt (and its UpdateAt where
\* the entity has one).
C14_NoRowIsRemoved ==
    [][/\ GroupKeys \subseteq GroupKeys'
       /\ MemberKeys \subseteq MemberKeys'
       /\ StoredLinkKeys \subseteq StoredLinkKeys'
       /\ res'.op = "GroupDelete" =>
             /\ \A g \in Groups : \E h \in Groups' :
                   h = [g EXCEPT !.DeleteAt = h.DeleteAt, !.UpdateAt = h.UpdateAt]
             /\ UNCHANGED <<GroupMembers, GroupTeams, GroupChannels>>
       /\ res'.op = "GroupDeleteMember" =>
             /\ \A m \in GroupMembers : \E n \in GroupMembers' :
                   n = [m EXCEPT !.DeleteAt = n.DeleteAt]
             /\ UNCHANGED <<Groups, GroupTeams, GroupChannels>>
       /\ res'.op = "GroupDeleteGroupSyncable" =>
             /\ \A l \in GroupTeams : \E n \in GroupTeams' :
                   n = [l EXCEPT !.DeleteAt = n.DeleteAt, !.UpdateAt = n.UpdateAt]
             /\ \A l \in GroupChannels : \E n \in GroupChannels' :
                   n = [l EXCEPT !.DeleteAt = n.DeleteAt, !.UpdateAt = n.UpdateAt]
             /\ UNCHANGED <<Groups, GroupMembers>>
      ]_vars

\* a SyncableLink Delete has just soft-deleted one of two stored team links
C14_Witness ==
    /\ res.op = "GroupDeleteGroupSyncable"
    /\ res.Err = NoErr
    /\ Cardinality(GroupTeams) = 2
    /\ \E l \in GroupTeams : l.DeleteAt # 0 /\ l.DeleteAt = res.Data.v.DeleteAt
    /\ \E l \in GroupTeams : l.DeleteAt = 0

\* C15: no two rows of Groups, live or soft-deleted, share a Name, and a
\* Create or an Update that would give a group the Name of another stored
\* group does not change the store.
C15_GroupNamesAreUnique ==
    /\ \A a, b \in Groups : a.Name = b.Name => a = b
    /\ \A time \in GetMillis :
          /\ \A group \in GroupCreateInputs : \A id \in NewIds :
                (\E g \in Groups : g.Name = group.Name) =>
                    LET r == GroupCreateOp(group, id, time) IN
                    r.res.Err # NoErr /\ r.Groups = Groups
          /\ \A group \in GroupUpdateInputs : \A foundRows \in BOOLEAN :
                (\E g \in Groups : g.Id # group.Id /\ g.Name = group.Name) =>
                    LET r == GroupUpdateOp(group, foundRows, time) IN
                    r.res.Err # NoErr /\ r.Groups = Groups

\* an Update has just been refused by the unique index on Name while two
\* groups are stored, one of them soft-deleted
C15_Witness ==
    /\ res.op = "GroupUpdate"
    /\ res.Err = "store.sql_group.update.update_error"
    /\ Cardinality(Groups) = 2
    /\ \E g \in Groups : g.DeleteAt # 0

\* C16: the two reconciliation queries mutate nothing: every relation is the
\* same before and after each call, and the same call made again in the state
\* a call leaves returns what that call returned.
C16_QueriesMutateNothing ==
    /\ [][UNCHANGED <<Groups, GroupMembers, GroupTeams, GroupChannels,
                      TeamMembers, ChannelMemberHistory>>]_vars
    /\ [](/\ res.op = "PendingAutoAddTeamMemberships" =>
                \E minCreateAt \in Watermarks, storeFails \in BOOLEAN :
                    PendingAutoAddTeamMembershipsOp(minCreateAt, storeFails) = res
          /\ res.op = "PendingAutoAddChannelMemberships" =>
                \E minCreateAt \in Watermarks, storeFails \in BOOLEAN :
                    PendingAutoAddChannelMembershipsOp(minCreateAt, storeFails) = res)

\* the channel query has just run and its statement selected two rows
C16_Witness ==
    /\ res.op = "PendingAutoAddChannelMemberships"
    /\ res.Err = NoErr
    /\ res.Data.RowsAffected >= 2
    /\ ChannelMemberHistory = {}

\* C17: each link relation holds at most one row per (GroupId, SyncableId);
\* Create with the key of a soft-deleted link returns an error and leaves
\* both link relations as they are, the row still soft-deleted.
C17_CreateOverDeletedLinkFails ==
    /\ \A type \in GSTypes : \A r1, r2 \in SyncableTable(type) :
          (r1.GroupId = r2.GroupId /\ SyncableKey(type, r1) = SyncableKey(type, r2))
              => r1 = r2
    /\ \A groupSyncable \in AllSyncableInputs, time \in GetMillis :
          LET sel == IF groupSyncable.Type \in GSTypes
                     THEN SyncableSelectOne(groupSyncable.Type, groupSyncable.GroupId,
                                            groupSyncable.SyncableId)
                     ELSE {}
              r == GroupCreateGroupSyncableOp(groupSyncable, time)
          IN
          (\E row \in sel : row.DeleteAt # 0) =>
              /\ r.res.Err = "store.sql_group.create_group_syncable.insert_error"
              /\ r.res.Data = NoData
              /\ r.tables.GroupTeams = GroupTeams
              /\ r.tables.GroupChannels = GroupChannels

\* Create has just failed on its insert while every stored link is soft-deleted
C17_Witness ==
    /\ res.op = "GroupCreateGroupSyncable"
    /\ res.Err = "store.sql_group.create_group_syncable.insert_error"
    /\ GroupTeams \cup GroupChannels # {}
    /\ \A row \in GroupTeams \cup GroupChannels : row.DeleteAt # 0

\* the errors the five operations return when sql.ErrNoRows comes back from
\* their SELECT
NotFoundErrors ==
    { "store.sql_group.update.no_rows", "store.sql_group.delete.no_rows",
      "store.sql_group.delete_member.no_rows",
      "store.sql_group.update_group_syncable.no_rows",
      "store.sql_group.delete_group_syncable.no_rows" }

NoGroupWithId(id) == ~ \E r \in Groups : r.Id = id
NoMemberWithKey(groupID, userID) ==
    ~ \E r \in GroupMembers : r.GroupId = groupID /\ r.UserId = userID
NoLinkWithKey(k) ==
    ~ \E r \in SyncableTable(k[3]) : r.GroupId = k[1] /\ SyncableKey(k[3], r) = k[2]

LinksNow == [GroupTeams |-> GroupTeams, GroupChannels |-> GroupChannels]

\* C18 (as stated): Group Update, Group Delete, RemoveMember, Link Update and
\* Link Delete each return NotFoundError when no row with the given key is
\* stored, and then leave every stored row unchanged.
C18_AbsentKeyIsNotFound ==
    \A time \in GetMillis :
        /\ \A group \in GroupUpdateInputs, foundRows \in BOOLEAN :
              NoGroupWithId(group.Id) =>
                  LET r == GroupUpdateOp(group, foundRows, time) IN
                  r.res.Err \in NotFoundErrors /\ r.Groups = Groups
        /\ \A groupID \in GroupIdPool \cup {BadId} :
              NoGroupWithId(groupID) =>
                  LET r == GroupDeleteOp(groupID, time) IN
                  r.res.Err \in NotFoundErrors /\ r.Groups = Groups
        /\ \A k \in MemberKeyInputs :
              NoMemberWithKey(k[1], k[2]) =>
                  LET r == GroupDeleteMemberOp(k[1], k[2], time) IN
                  r.res.Err \in NotFoundErrors /\ r.GroupMembers = GroupMembers
        /\ \A groupSyncable \in AllSyncableInputs :
              NoLinkWithKey(<<groupSyncable.GroupId, groupSyncable.SyncableId,
                              groupSyncable.Type>>) =>
                  LET r == GroupUpdateGroupSyncableOp(groupSyncable, time) IN
                  r.res.Err \in NotFoundErrors /\ r.tables = LinksNow
        /\ \A k \in SyncableKeyInputs(AllLinkKeys) :
              NoLinkWithKey(k) =>
                  LET r == GroupDeleteGroupSyncableOp(k[1], k[2], k[3], time) IN
                  r.res.Err \in NotFoundErrors /\ r.tables = LinksNow

\* C18 (amended): when no row with the given key is stored, Group Update,
\* Group Delete and Link Update return their not-found error; RemoveMember
\* and Link Delete return theirs when both identifiers are well-formed and a
\* validation error when one is malformed; in each case the store is unchanged.
C18_AbsentKeyIsNotFoundOrInvalid ==
    \A time \in GetMillis :
        /\ \A group \in GroupUpdateInputs, foundRows \in BOOLEAN :
              NoGroupWithId(group.Id) =>
                  LET r == GroupUpdateOp(group, foundRows, time) IN
                  /\ r.res.Err = "store.sql_group.update.no_rows"
                  /\ r.res.Data = NoData
                  /\ r.Groups = Groups
        /\ \A groupID \in GroupIdPool \cup {BadId} :
              NoGroupWithId(groupID) =>
                  LET r == GroupDeleteOp(groupID, time) IN
                  /\ r.res.Err = "store.sql_group.delete.no_rows"
                  /\ r.res.Data = NoData
                  /\ r.Groups = Groups
        /\ \A k \in MemberKeyInputs :
              NoMemberWithKey(k[1], k[2]) =>
                  LET r == GroupDeleteMemberOp(k[1], k[2], time) IN
                  /\ r.res.Err =
                        IF ~IsValidId(k[1])
                        THEN "store.sql_group.delete_member.invalid_group_id"
                        ELSE IF ~IsValidId(k[2])
                        THEN "store.sql_group.delete_member.invalid_user_id"
                        ELSE "store.sql_group.delete_member.no_rows"
                  /\ r.res.Data = NoData
                  /\ r.GroupMembers = GroupMembers
        /\ \A groupSyncable \in AllSyncableInputs :
              NoLinkWithKey(<<groupSyncable.GroupId, groupSyncable.SyncableId,
                              groupSyncable.Type>>) =>
                  LET r == GroupUpdateGroupSyncableOp(groupSyncable, time) IN
                  /\ r.res.Err = "store.sql_group.update_group_syncable.no_rows"
                  /\ r.res.Data = NoData
                  /\ r.tables = LinksNow
        /\ \A k \in SyncableKeyInputs(AllLinkKeys) :
              NoLinkWithKey(k) =>
                  LET r == GroupDeleteGroupSyncableOp(k[1], k[2], k[3], time) IN
                  /\ r.res.Err =
                        IF ~IsValidId(k[1])
                        THEN "store.sql_group.delete_group_syncable.invalid_group_id"
                        ELSE IF ~IsValidId(k[2])
                        THEN "store.sql_group.delete_group_syncable.invalid_syncable_id"
                        ELSE "store.sql_group.delete_group_syncable.no_rows"
                  /\ r.res.Data = NoData
                  /\ r.tables = LinksNow

\* RemoveMember has just returned not-found for a well-formed key while
\* another member of the same group is stored
C18_Witness ==
    /\ res.op = "GroupDeleteMember"
    /\ res.Err = "store.sql_group.delete_member.no_rows"
    /\ \E r1, r2 \in GroupMembers : r1.GroupId = r2.GroupId /\ r1.UserId # r2.UserId
    /\ Cardinality(GroupMembers) < Cardinality(GroupIdPool \X UserIds)

\* C19: Group ListPage returns, without error, only stored groups with
\* DeleteAt = 0 in descending CreateAt order, and the empty list when no live
\* group is stored; a soft-deleted group is in no page, while Get of its id
\* returns its row.
C19_ListPageOnlyLiveGroups ==
    /\ \A page \in PageInputs : \A sorted \in OrderByCreateAtDesc(GroupGetAllPageSelect) :
          LET r == GroupGetAllPageOp(page[1], page[2], sorted)
              list == r.Data.v
          IN
          /\ r.Err = NoErr
          /\ r.Data.kind = "[]Group"
          /\ \A i \in 1..Len(list) : list[i] \in Groups /\ list[i].DeleteAt = 0
          /\ \A i \in 1..(Len(list) - 1) : list[i].CreateAt >= list[i + 1].CreateAt
          /\ (\A g \in Groups : g.DeleteAt # 0) => list = <<>>
          /\ \A g \in Groups : g.DeleteAt # 0 =>
                ~ \E i \in 1..Len(list) : list[i].Id = g.Id
    /\ \A g \in Groups : g.DeleteAt # 0 =>
          LET r == GroupGetOp(g.Id) IN r.Err = NoErr /\ r.Data = GroupData(g)

\* ListPage has just returned the one live group while the other group
\* stored is soft-deleted
C19_Witness ==
    /\ res.op = "GroupGetAllPage"
    /\ res.Err = NoErr
    /\ \E live, gone \in Groups :
          /\ Groups = {live, gone}
          /\ live.DeleteAt = 0 /\ gone.DeleteAt # 0
          /\ res.Data.v = <<live>>

\* C20: a successful Link Update changes only the CanLeave, AutoAdd and
\* UpdateAt of the row with the key passed: every other row of that relation
\* and every row of the other relation keeps all of its fields.
C20_UpdateChangesOneLink ==
    \A groupSyncable \in AllSyncableInputs, time \in GetMillis :
        LET type == groupSyncable.Type
            r == GroupUpdateGroupSyncableOp(groupSyncable, time)
            after == IF type = GSTeam THEN r.tables.GroupTeams
                     ELSE r.tables.GroupChannels
            isTarget(row) == /\ row.GroupId = groupSyncable.GroupId
                             /\ SyncableKey(type, row) = groupSyncable.SyncableId
        IN
        r.res.Err = NoErr =>
            /\ \A row \in SyncableTable(type) : ~isTarget(row) => row \in after
            /\ \A row \in after : isTarget(row) =>
                  \E old \in SyncableTable(type) :
                      row = [old EXCEPT !.CanLeave = groupSyncable.CanLeave,
                                        !.AutoAdd = groupSyncable.AutoAdd,
                                        !.UpdateAt = time]
            /\ type = GSTeam => r.tables.GroupChannels = GroupChannels
            /\ type = GSChannel => r.tables.GroupTeams = GroupTeams

\* C21: under every interleaving of concurrent Group Update and Group Delete
\* calls, a stored group whose DeleteAt is nonzero never has DeleteAt = 0
\* again: no step of either call undoes a Delete.
C21_DeleteIsNeverUndone ==
    [][\A g \in Groups : g.DeleteAt # 0 =>
          \A h \in Groups' : h.Id = g.Id => h.DeleteAt # 0]_vars

\* the soft-delete operations, and the errors of a call that lost the race:
\* the row was soft-deleted already, or the UPDATE affected no row
SoftDeleteOps == {"GroupDelete", "GroupDeleteMember", "GroupDeleteGroupSyncable"}
LostRaceErrors ==
    AlreadyDeletedErrors \cup
    { "store.sql_group.delete.no_rows_affected",
      "store.sql_scheme.delete_member.no_rows_affected",
      "store.sql_group.delete_group_syncable.no_rows_affected" }

\* the stored rows with the key a soft-delete call was given
StoredRowsOf(call) ==
    IF call.op = "GroupDelete" THEN GroupsSelectOne(Groups, call.arg)
    ELSE IF call.op = "GroupDeleteMember"
    THEN GroupMembersSelectOne(GroupMembers, call.arg[1], call.arg[2])
    ELSE SyncableSelectOne(call.arg[3], call.arg[1], call.arg[2])

\* two callers have returned from the same soft-delete of the same key, and
\* both had read the row live
BothDeleted(a, b) ==
    /\ a # b
    /\ inflight[a].pc = "returned" /\ inflight[b].pc = "returned"
    /\ inflight[a].op \in SoftDeleteOps /\ inflight[b].op = inflight[a].op
    /\ inflight[a].arg = inflight[b].arg
    /\ \E row \in inflight[a].sel : row.DeleteAt = 0
    /\ \E row \in inflight[b].sel : row.DeleteAt = 0

\* C22: of two concurrent soft-delete calls on the same live row at most one
\* returns success; the other returns a conflict or concurrency error, and
\* the stored DeleteAt is the DeleteAt of the entity the successful call
\* returned.
C22_OneSoftDeleteWins ==
    \A a, b \in Callers : BothDeleted(a, b) =>
        /\ ~ (inflight[a].res.Err = NoErr /\ inflight[b].res.Err = NoErr)
        /\ inflight[a].res.Err = NoErr =>
              /\ inflight[b].res.Err \in LostRaceErrors
              /\ \A row \in StoredRowsOf(inflight[a]) :
                    row.DeleteAt = inflight[a].res.Data.v.DeleteAt

\* C23: a successful Link Create adds exactly one row, to the relation its
\* type selects, with DeleteAt = 0 and CreateAt = UpdateAt = the time read,
\* whatever stamps the caller passed; the rows stored before stay as they
\* are and the other relation is unchanged.
C23_CreateAddsOneLink ==
    \A groupSyncable \in AllSyncableInputs, time \in GetMillis :
        LET type == groupSyncable.Type
            r == GroupCreateGroupSyncableOp(groupSyncable, time)
            before == SyncableTable(type)
            after == IF type = GSTeam THEN r.tables.GroupTeams
                     ELSE r.tables.GroupChannels
            other == IF type = GSTeam THEN r.tables.GroupChannels
                     ELSE r.tables.GroupTeams
            added == SyncableRow(type,
                        [GroupId |-> groupSyncable.GroupId,
                         SyncableId |-> groupSyncable.SyncableId,
                         CanLeave |-> groupSyncable.CanLeave,
                         AutoAdd |-> groupSyncable.AutoAdd,
                         CreateAt |-> time, UpdateAt |-> time, DeleteAt |-> 0])
        IN
        r.res.Err = NoErr =>
            /\ added \notin before
            /\ after = before \cup {added}
            /\ other = (IF type = GSTeam THEN GroupChannels ELSE GroupTeams)
            /\ r.res.Data.v.DeleteAt = 0
            /\ r.res.Data.v.CreateAt = time /\ r.res.Data.v.UpdateAt = time

\* Create has just added a link at a later time than the link stored in the
\* other relation, which is as it was created
C23_Witness ==
    /\ res.op = "GroupCreateGroupSyncable"
    /\ res.Err = NoErr
    /\ res.Data.v.CreateAt = MaxTime
    /\ Cardinality(GroupTeams) = 1 /\ Cardinality(GroupChannels) = 1
    /\ \E row \in SyncableTable(res.Data.v.Type) :
          /\ row.CreateAt = MaxTime /\ row.UpdateAt = MaxTime /\ row.DeleteAt = 0
          /\ row.GroupId = res.Data.v.GroupId
    /\ \E row \in GroupTeams \cup GroupChannels :
          row.CreateAt = 1 /\ row.UpdateAt = 1 /\ row.DeleteAt = 0

\* a live membership of the user, created at or after the watermark, in a
\* live group that has a live AutoAdd link of the type to the syncable
PairHasRecentMembership(p, type, minCreateAt) ==
    \E g \in Groups, l \in SyncableTable(type), gm \in GroupMembers :
        /\ g.DeleteAt = 0
        /\ l.GroupId = g.Id /\ SyncableKey(type, l) = p[2]
        /\ l.DeleteAt = 0 /\ l.AutoAdd
        /\ gm.GroupId = g.Id /\ gm.UserId = p[1]
        /\ gm.DeleteAt = 0 /\ gm.CreateAt >= minCreateAt

====
